---- MODULE Spec2Model ----
(***************************************************************************)
(* QuizApp1 (src/App.tsx): a three-question quiz on a native stack         *)
(* navigator.  A Question screen keeps the in-progress selection in its    *)
(* own `selected` state, receives index and userAnswers as route params,   *)
(* and on Next either pushes the next Question or replaces itself by the   *)
(* Summary, which grades userAnswers against quizData.                     *)
(*                                                                         *)
(* JavaScript values are tagged records: Num(n) is a number, Arr(s) an     *)
(* array, Undefined the value read from a missing array slot.  Array       *)
(* indices are 0-based as in the source; TLA+ sequences are 1-based, so    *)
(* a[i] of the source is a[i + 1] here.                                    *)
(***************************************************************************)
EXTENDS Integers, Sequences, FiniteSets, TLC

VARIABLES
    stack,        \* the navigator's routes, bottom first; the last is shown
    lastEvent,    \* the most recent user event (observation only)
    prevEvent,    \* the event before it (observation only)
    wentBack,     \* has a back navigation happened (observation only)
    gradedCount,  \* how often a Summary was entered, saturating
    gData,        \* Summary under test: route.params.data
    gAnswers,     \* Summary under test: route.params.userAnswers
    gScore,       \* Summary under test: the score it renders
    gTotal,       \* Summary under test: the total it renders
    gStatus,      \* Summary under test: "running" | "done" | "threw"
    cCorrect,     \* getCorrect under test: argument correct
    cSelected,    \* getCorrect under test: argument selected
    cResult       \* getCorrect under test: "pending" or the outcome

vars == <<stack, lastEvent, prevEvent, wentBack, gradedCount,
          gData, gAnswers, gScore, gTotal, gStatus, cCorrect, cSelected, cResult>>

sessionVars == <<stack, lastEvent, prevEvent, wentBack, gradedCount>>
gradeVars == <<gData, gAnswers, gScore, gTotal, gStatus>>
correctVars == <<cCorrect, cSelected, cResult>>

(***************************************************************************)
(* Bounds of the model.                                                    *)
(***************************************************************************)
MaxCount == 2     \* gradedCount saturates here
MaxSelLen == 3    \* longest selection array drawn as a grading input
MaxChoices == 4   \* number of choices of the question drawn for getCorrect

(***************************************************************************)
(* JavaScript values.                                                      *)
(***************************************************************************)
Num(n) == [kind |-> "number", num |-> n]

Arr(s) == [kind |-> "array", arr |-> s]

Undefined == [kind |-> "undefined"]

isArray(v) == v.kind = "array"

Range(s) == {s[k] : k \in 1..Len(s)}

includes(s, v) == \E k \in 1..Len(s) : s[k] = v

RECURSIVE filterOut(_, _)
filterOut(s, v) ==
    IF s = <<>> THEN <<>>
    ELSE IF Head(s) # v THEN <<Head(s)>> \o filterOut(Tail(s), v)
         ELSE filterOut(Tail(s), v)

\* a[i], which is undefined outside the array
at(a, i) == IF i >= 0 /\ i < Len(a) THEN a[i + 1] ELSE Undefined

\* const u = []; u[i] = v
freshAssign(a, i, v) ==
    [k \in 1..(i + 1) |-> IF k = i + 1 THEN v ELSE Undefined]

\* const u = [...a]; u[i] = v
spreadAssign(a, i, v) ==
    [k \in 1..(IF i + 1 > Len(a) THEN i + 1 ELSE Len(a)) |->
        IF k = i + 1 THEN v
        ELSE IF k <= Len(a) THEN a[k] ELSE Undefined]

(***************************************************************************)
(* The question data.                                                      *)
(***************************************************************************)
quizData ==
    << [prompt |-> "Which of the following is a fruit?",
        type |-> "multiple-choice",
        choices |-> <<"Carrot", "Apple", "Potato", "Celery">>,
        correct |-> Num(1)],
       [prompt |-> "Select all even numbers:",
        type |-> "multiple-answer",
        choices |-> <<"1", "2", "3", "4">>,
        correct |-> Arr(<<1, 3>>)],
       [prompt |-> "The sky is blue.",
        type |-> "true-false",
        choices |-> <<"False", "True">>,
        correct |-> Num(1)] >>

(***************************************************************************)
(* The Question screen.                                                    *)
(***************************************************************************)
QuestionRoute(i, ua, sel) ==
    [name |-> "Question", index |-> i, userAnswers |-> ua, selected |-> sel]

SummaryRoute(ua) == [name |-> "Summary", userAnswers |-> ua]

top == stack[Len(stack)]

question == quizData[top.index + 1]

isMultipleAnswer == question.type = "multiple-answer"

\* a toggle that ignores the question type
toggledAnyType(multiple, prev, value) ==
    IF includes(prev, value) THEN filterOut(prev, value)
    ELSE prev \o <<value>>

\* a toggle that never removes
toggledAppendOnly(multiple, prev, value) ==
    IF multiple THEN prev \o <<value>> ELSE <<value>>

\* the new value of `selected` after handleSelect(value)
toggled(multiple, prev, value) ==
    IF multiple
    THEN IF includes(prev, value) THEN filterOut(prev, value)
         ELSE prev \o <<value>>
    ELSE <<value>>

\* a Next button that is never disabled
nextDisabledNever(sel) == FALSE

\* the Next button's `disabled` prop
nextDisabled(sel) == Len(sel) = 0

replaceTop(r) == [stack EXCEPT ![Len(stack)] = r]

bump(n) == IF n < MaxCount THEN n + 1 ELSE n

handleSelect(value) ==
    /\ top.name = "Question"
    /\ stack' = replaceTop([top EXCEPT !.selected =
                               toggled(isMultipleAnswer, top.selected, value)])
    /\ lastEvent' = [op |-> "select", value |-> value, before |-> top.selected]
    /\ prevEvent' = lastEvent
    /\ UNCHANGED <<wentBack, gradedCount>>

handleNext ==
    /\ top.name = "Question"
    /\ ~nextDisabled(top.selected)
    /\ LET updatedAnswers ==
               spreadAssign(top.userAnswers, top.index, Arr(top.selected))
       IN  IF top.index + 1 < Len(quizData)
           THEN /\ stack' = Append(stack,
                        QuestionRoute(top.index + 1, updatedAnswers, <<>>))
                /\ gradedCount' = gradedCount
           ELSE /\ stack' = replaceTop(SummaryRoute(updatedAnswers))
                /\ gradedCount' = bump(gradedCount)
    /\ lastEvent' = [op |-> "next", index |-> top.index, selected |-> top.selected]
    /\ prevEvent' = lastEvent
    /\ UNCHANGED wentBack

\* the stack navigator's back (header button, hardware back, swipe): the
\* navigator is created with its default options, and Next pushes
goBack ==
    /\ Len(stack) > 1
    /\ stack' = SubSeq(stack, 1, Len(stack) - 1)
    /\ lastEvent' = [op |-> "back"]
    /\ prevEvent' = lastEvent
    /\ wentBack' = TRUE
    /\ UNCHANGED gradedCount

Init ==
    /\ stack = <<QuestionRoute(0, <<>>, <<>>)>>
    /\ lastEvent = [op |-> "init"]
    /\ prevEvent = [op |-> "init"]
    /\ wentBack = FALSE
    /\ gradedCount = 0
    /\ gData = <<>>
    /\ gAnswers = <<>>
    /\ gScore = 0
    /\ gTotal = 0
    /\ gStatus = "idle"
    /\ cCorrect = Undefined
    /\ cSelected = Undefined
    /\ cResult = "idle"

Press ==
    \E value \in 0..(Len(question.choices) - 1) : handleSelect(value)

Next ==
    \/ (top.name = "Question" /\ Press /\ UNCHANGED <<gradeVars, correctVars>>)
    \/ (handleNext /\ UNCHANGED <<gradeVars, correctVars>>)
    \/ (goBack /\ UNCHANGED <<gradeVars, correctVars>>)

Spec == Init /\ [][Next]_vars

(***************************************************************************)
(* The Summary screen.                                                     *)
(***************************************************************************)
\* getCorrect without the length comparison
getCorrectNoLength(correct, selected) ==
    IF isArray(correct)
    THEN IF /\ isArray(selected)
            /\ \A k \in 1..Len(correct.arr) :
                   includes(selected.arr, correct.arr[k])
         THEN "true" ELSE "false"
    ELSE IF isArray(selected)
         THEN IF includes(selected.arr, correct.num) THEN "true" ELSE "false"
         ELSE "TypeError"

\* getCorrect comparing a single index with the whole selection
getCorrectEquality(correct, selected) ==
    IF isArray(correct)
    THEN IF /\ isArray(selected)
            /\ Len(correct.arr) = Len(selected.arr)
            /\ \A k \in 1..Len(correct.arr) :
                   includes(selected.arr, correct.arr[k])
         THEN "true" ELSE "false"
    ELSE IF isArray(selected)
         THEN IF selected.arr = <<correct.num>> THEN "true" ELSE "false"
         ELSE "TypeError"

\* "true" or "false", or "TypeError" where `selected.includes` is read off
\* undefined
getCorrect(correct, selected) ==
    IF isArray(correct)
    THEN IF /\ isArray(selected)
            /\ Len(correct.arr) = Len(selected.arr)
            /\ \A k \in 1..Len(correct.arr) :
                   includes(selected.arr, correct.arr[k])
         THEN "true" ELSE "false"
    ELSE IF isArray(selected)
         THEN IF includes(selected.arr, correct.num) THEN "true" ELSE "false"
         ELSE "TypeError"

\* data.reduce((acc, q, i) => acc + (getCorrect(...) ? 1 : 0), 0), from
\* position i with accumulator acc; a throw ends the reduce
RECURSIVE reduceFrom(_, _, _, _)
reduceFrom(data, userAnswers, i, acc) ==
    IF i >= Len(data) THEN [threw |-> FALSE, value |-> acc]
    ELSE LET r == getCorrect(data[i + 1].correct, at(userAnswers, i))
         IN  IF r = "TypeError" THEN [threw |-> TRUE, value |-> acc]
             ELSE reduceFrom(data, userAnswers, i + 1,
                             acc + (IF r = "true" THEN 1 ELSE 0))

\* the reduce started from 1
scoreFromOne(data, userAnswers) == reduceFrom(data, userAnswers, 0, 1)

score(data, userAnswers) == reduceFrom(data, userAnswers, 0, 0)

\* what the Summary on top of the stack renders as "Total Score: s / t"
shownScore == score(quizData, top.userAnswers).value

shownTotal == Len(quizData)

(***************************************************************************)
(* Inputs for the Summary and for getCorrect on their own.  A selection is *)
(* an array of distinct valid choice indices; an entry of userAnswers is   *)
(* a selection or missing.                                                 *)
(***************************************************************************)
Injective(s) == \A j, k \in 1..Len(s) : s[j] = s[k] => j = k

Selections(n) ==
    {s \in UNION {[1..m -> 0..(n - 1)] : m \in 0..MaxSelLen} : Injective(s)}

Entries(n) == {Undefined} \cup {Arr(s) : s \in Selections(n)}

Corrects(n) ==
    {Num(c) : c \in 0..(n - 1)} \cup
    {Arr(s) : s \in {t \in UNION {[1..m -> 0..(n - 1)] : m \in 1..n} :
                        Injective(t)}}

\* the lists of m entries, the k-th one over the choices of question k
RECURSIVE ListsOf(_, _)
ListsOf(data, m) ==
    IF m = 0 THEN {<<>>}
    ELSE {Append(a, e) : a \in ListsOf(data, m - 1),
                         e \in Entries(Len(data[m].choices))}

AnswerLists(data) == UNION {ListsOf(data, m) : m \in 0..Len(data)}

idleSession ==
    /\ stack = <<QuestionRoute(0, <<>>, <<>>)>>
    /\ lastEvent = [op |-> "init"]
    /\ prevEvent = [op |-> "init"]
    /\ wentBack = FALSE
    /\ gradedCount = 0

InitGrade ==
    /\ idleSession
    /\ gData = quizData
    /\ gAnswers \in AnswerLists(quizData)
    /\ gScore = 0
    /\ gTotal = 0
    /\ gStatus = "running"
    /\ cCorrect = Undefined
    /\ cSelected = Undefined
    /\ cResult = "idle"

\* the Summary renders
Render ==
    /\ gStatus = "running"
    /\ LET r == score(gData, gAnswers)
       IN  IF r.threw
           THEN gStatus' = "threw" /\ UNCHANGED <<gScore, gTotal>>
           ELSE gStatus' = "done" /\ gScore' = r.value /\ gTotal' = Len(gData)
    /\ UNCHANGED <<gData, gAnswers>>

NextGrade == Render /\ UNCHANGED <<sessionVars, correctVars>>

SpecGrade == InitGrade /\ [][NextGrade]_vars

InitCorrect ==
    /\ idleSession
    /\ gData = <<>>
    /\ gAnswers = <<>>
    /\ gScore = 0
    /\ gTotal = 0
    /\ gStatus = "idle"
    /\ cCorrect \in Corrects(MaxChoices)
    /\ cSelected \in Entries(MaxChoices)
    /\ cResult = "pending"

Evaluate ==
    /\ cResult = "pending"
    /\ cResult' = getCorrect(cCorrect, cSelected)
    /\ UNCHANGED <<cCorrect, cSelected>>

NextCorrect == Evaluate /\ UNCHANGED <<sessionVars, gradeVars>>

SpecCorrect == InitCorrect /\ [][NextCorrect]_vars

(***************************************************************************)
(* Properties.                                                             *)
(***************************************************************************)
IsGraded == top.name = "Summary"

AnswerSet == top.userAnswers

Position == IF IsGraded THEN Len(quizData) ELSE top.index

\* the members of an entry, a missing entry having none
Members(e) == IF isArray(e) THEN Range(e.arr) ELSE {}

\* C1: no commit happens on an empty selection: every entry of every
\* Answer Set in the session is a non-empty selection, every screen that
\* has been advanced from holds a non-empty selection, and the selection
\* of the latest commit was non-empty.
C1_NoEmptyCommit ==
    /\ \A k \in 1..Len(stack) : \A j \in 1..Len(stack[k].userAnswers) :
          /\ isArray(stack[k].userAnswers[j])
          /\ stack[k].userAnswers[j].arr # <<>>
    /\ \A k \in 1..(Len(stack) - 1) : stack[k].selected # <<>>
    /\ lastEvent.op = "next" => lastEvent.selected # <<>>

\* a committed first question, then a selection emptied again on the
\* multiple-answer question
C1_Witness ==
    /\ Len(stack) = 2
    /\ top.name = "Question"
    /\ lastEvent.op = "select"
    /\ top.selected = <<>>
    /\ AnswerSet # <<>>

\* C2: grading always produces a result, a missing entry counting as the
\* empty selection: the Summary never throws, and its score is the score
\* of the answers with every missing entry replaced by the empty array.
Filled(data, userAnswers) ==
    [k \in 1..Len(data) |->
        IF isArray(at(userAnswers, k - 1)) THEN userAnswers[k] ELSE Arr(<<>>)]

C2_GradeNeverFails ==
    gStatus # "running" =>
        /\ gStatus = "done"
        /\ gScore = score(gData, Filled(gData, gAnswers)).value
        /\ gTotal = Len(gData)

\* C3: the flow is one-directional: a step never changes an entry that the
\* Answer Set already has and never leaves the session at a position at
\* or before such an entry.
C3_OneDirectional ==
    [][\A i \in 0..(Len(AnswerSet) - 1) :
          /\ at(AnswerSet', i) = at(AnswerSet, i)
          /\ Position' > i]_vars

\* C4: Graded is terminal: from the Summary no step leads to another
\* screen or to another graded Answer Set.
C4_GradedTerminal ==
    [][IsGraded => (IsGraded' /\ AnswerSet' = AnswerSet)]_vars

\* C5: where correct is a set of indices, getCorrect says "true" exactly
\* when the selection has the same members as correct, and "false"
\* otherwise.
C5_SetExactMatch ==
    (cResult # "pending" /\ isArray(cCorrect)) =>
        /\ cResult \in {"true", "false"}
        /\ cResult = "true" <=>
               (isArray(cSelected) /\ Range(cSelected.arr) = Range(cCorrect.arr))

\* a proper superset of correct graded incorrect
C5_Witness ==
    /\ cCorrect = Arr(<<1, 3>>)
    /\ cSelected = Arr(<<1, 3, 2>>)
    /\ cResult = "false"

\* C6: where correct is a single index, getCorrect says "true" exactly
\* when that index is a member of the selection, and "false" for a
\* selection without it.
C6_SingleMembership ==
    (cResult # "pending" /\ ~isArray(cCorrect)) =>
        /\ cResult = "true" <=> cCorrect.num \in Members(cSelected)
        /\ (isArray(cSelected) /\ cCorrect.num \notin Range(cSelected.arr))
               => cResult = "false"

\* the correct index together with another one graded correct
C6_Witness ==
    /\ cCorrect = Num(1)
    /\ cSelected = Arr(<<0, 1>>)
    /\ cResult = "true"

\* C7: the Summary's score is the number of questions graded correct, its
\* total the number of questions, 0 <= score <= total, and the two sample
\* answer sets score 3 of 3 and 0 of 3.
SampleAllRight == <<Arr(<<1>>), Arr(<<1, 3>>), Arr(<<1>>)>>

SampleAllWrong == <<Arr(<<0>>), Arr(<<1>>), Arr(<<0>>)>>

C7_ScoreCountsCorrect ==
    IsGraded =>
        /\ ~score(quizData, AnswerSet).threw
        /\ shownScore = Cardinality({i \in 0..(Len(quizData) - 1) :
               getCorrect(quizData[i + 1].correct, at(AnswerSet, i)) = "true"})
        /\ shownTotal = 3
        /\ 0 <= shownScore /\ shownScore <= shownTotal
        /\ AnswerSet = SampleAllRight => shownScore = 3
        /\ AnswerSet = SampleAllWrong => shownScore = 0

C7_Witness ==
    /\ IsGraded
    /\ AnswerSet = SampleAllRight
    /\ shownScore = 3
    /\ shownTotal = 3

\* C8: committing through the three questions from the initial screen
\* reaches the Summary exactly once, and every Summary holds an Answer Set
\* of one entry per question, each the selection committed at its
\* position.
C8_GradedOnceComplete ==
    /\ ~wentBack => gradedCount = (IF IsGraded THEN 1 ELSE 0)
    /\ \A k \in 1..(Len(stack) - 1) : stack[k].name = "Question"
    /\ IsGraded =>
          /\ gradedCount >= 1
          /\ Len(stack) = Len(quizData)
          /\ Len(AnswerSet) = Len(quizData)
          /\ lastEvent.op = "next"
          /\ lastEvent.index = Len(quizData) - 1
          /\ AnswerSet[Len(quizData)] = Arr(lastEvent.selected)
          /\ \A k \in 1..(Len(stack) - 1) :
                /\ stack[k].index = k - 1
                /\ AnswerSet[k] = Arr(stack[k].selected)

C8_Witness ==
    /\ IsGraded
    /\ ~wentBack
    /\ gradedCount = 1
    /\ Len(AnswerSet) = 3

\* C9: on a single-select or boolean question a toggle makes the selection
\* the one-element array of the toggled index, whatever it was before, so
\* such a selection never holds more than one index.
C9_SingleSelectReplaces ==
    /\ \A k \in 1..Len(stack) :
          (stack[k].name = "Question"
             /\ quizData[stack[k].index + 1].type # "multiple-answer")
          => Len(stack[k].selected) <= 1
    /\ (top.name = "Question" /\ ~isMultipleAnswer /\ lastEvent.op = "select")
          => top.selected = <<lastEvent.value>>

\* toggle(a) then toggle(b), a # b, on such a question
C9_Witness ==
    /\ top.name = "Question"
    /\ ~isMultipleAnswer
    /\ prevEvent.op = "select"
    /\ lastEvent.op = "select"
    /\ prevEvent.value # lastEvent.value
    /\ lastEvent.before = <<prevEvent.value>>
    /\ top.selected = <<lastEvent.value>>

\* C10: on a multi-select question a toggle adds the index when absent and
\* removes it when present, never leaves a duplicate, and two toggles of
\* the same index in a row restore the selection as a set.
C10_MultiToggleInvolution ==
    (top.name = "Question" /\ isMultipleAnswer) =>
        /\ Injective(top.selected)
        /\ lastEvent.op = "select" =>
              LET x == lastEvent.value
                  b == Range(lastEvent.before)
              IN  /\ x \in b => Range(top.selected) = b \ {x}
                  /\ x \notin b => Range(top.selected) = b \cup {x}
        /\ (/\ lastEvent.op = "select"
            /\ prevEvent.op = "select"
            /\ prevEvent.value = lastEvent.value)
              => Range(top.selected) = Range(prevEvent.before)

\* two toggles of a selected index: the same set in another order
C10_Witness ==
    /\ top.name = "Question"
    /\ isMultipleAnswer
    /\ lastEvent.op = "select"
    /\ prevEvent.op = "select"
    /\ prevEvent.value = lastEvent.value
    /\ Len(prevEvent.before) = 2
    /\ top.selected # prevEvent.before
    /\ Range(top.selected) = Range(prevEvent.before)

====
